---- MODULE Spec2Model ----
(***************************************************************************)
(* Model of auditable-build (src/auditable-build/src/lib.rs): one build    *)
(* script run of collect_dependency_list(), step by step, with the build   *)
(* environment, the resolver (cargo metadata) and the file system as the   *)
(* surroundings.  Strings that the code takes apart (environment variable  *)
(* names, feature names) are sequences of one-character strings; the other *)
(* strings are opaque values.  Option<T> is a sequence of length 0 or 1.   *)
(***************************************************************************)
EXTENDS Integers, Sequences, FiniteSets, TLC

VARIABLES
    env,                \* the required environment variables that are set: name -> value
    featureVars,        \* names of the other environment variables (character sequences)
    manifest,           \* features declared by the root package, in the map's iteration order
    fs,                 \* file system: path -> bytes, for the files that exist
    pc,                 \* position of the run
    panic_line,         \* source line of the panic that ended the run, 0 if none
    metadata_cmd,       \* get_metadata's `metadata_command` (Option)
    enabled_uppercase,  \* enabled_features' `enabled_uppercase_features` (a set of tokens)
    dry_run_metadata,   \* enabled_features' `dry_run_metadata` (Option)
    result,             \* what enabled_features returned
    calls,              \* the resolver invocations made so far, in order
    level,              \* the compression level handed to compress_to_vec_zlib (Option)
    compressed_json,    \* collect_dependency_list's `compressed_json` (Option)
    output_path,        \* collect_dependency_list's `output_file_path` (Option)
    buf,                \* bytes held in the BufWriter's buffer
    io_error,           \* an operation on the artifact file has returned an error in this run
    published           \* the path printed as cargo:rustc-env=... (Option)

vars == <<env, featureVars, manifest, fs, pc, panic_line, metadata_cmd, enabled_uppercase,
          dry_run_metadata, result, calls, level, compressed_json, output_path, buf,
          io_error, published>>

\* ---------------------------------------------------------------- bounds
MaxFeatures == 2
MaxVars == 2
MaxData == 2
\* capacity of the BufWriter's buffer (8192 in std), scaled down with MaxData
BufCapacity == 2

\* ---------------------------------------------------------------- values
None == <<>>
Some(v) == <<v>>

Lower == <<"a","b","c","d","e","f","g","h","i","j","k","l","m",
           "n","o","p","q","r","s","t","u","v","w","x","y","z">>
Upper == <<"A","B","C","D","E","F","G","H","I","J","K","L","M",
           "N","O","P","Q","R","S","T","U","V","W","X","Y","Z">>

Range(s) == { s[i] : i \in 1..Len(s) }

\* "CARGO_FEATURE_", the pattern of lines 100 and 102
CARGO_FEATURE_ == <<"C","A","R","G","O","_","F","E","A","T","U","R","E","_">>

\* the name "default" of line 56
default == <<"d","e","f","a","u","l","t">>

\* the file name of line 27
ArtifactName == "dependency-list.json.zlib"

DebugLevel == 1
ReleaseLevel == 7
\* "not 9": the maximum level, line 47
MaxLevel == 9

\* the package id cargo metadata gives the root package
RootId == "root 0.1.0 (path+file:///proj)"

\* ---------------------------------------------------------------- str
\* u8/char::to_ascii_uppercase: 'a'..'z' to 'A'..'Z', every other character unchanged
char_to_ascii_uppercase(c) ==
    IF \E i \in 1..Len(Lower) : Lower[i] = c
    THEN Upper[CHOOSE i \in 1..Len(Lower) : Lower[i] = c]
    ELSE c

to_ascii_uppercase(s) == [i \in 1..Len(s) |-> char_to_ascii_uppercase(s[i])]

\* str::replace for a one-character pattern and a one-character replacement
replace(s, from, to) == [i \in 1..Len(s) |-> IF s[i] = from THEN to ELSE s[i]]

starts_with(s, pat) == Len(s) >= Len(pat) /\ SubSeq(s, 1, Len(pat)) = pat

\* str::trim_start_matches: the pattern is removed from the front as long as it matches
RECURSIVE trim_start_matches(_, _)
trim_start_matches(s, pat) ==
    IF Len(pat) > 0 /\ starts_with(s, pat)
    THEN trim_start_matches(SubSeq(s, Len(pat) + 1, Len(s)), pat)
    ELSE s

\* line 89 without the replace
mangled_feature_keeping_hyphens(feature) == to_ascii_uppercase(feature)

\* line 89
mangled_feature(feature) == replace(to_ascii_uppercase(feature), "-", "_")

\* lines 97-105, over the names env::vars() yields
enabled_uppercase_features(names) ==
    { trim_start_matches(var_name, CARGO_FEATURE_) :
        var_name \in { name \in names :
                         Len(name) > Len(CARGO_FEATURE_) /\ starts_with(name, CARGO_FEATURE_) } }

\* lines 88-93: the loop over root_package.features, pushing the enabled ones
RECURSIVE push_enabled(_, _, _, _)
push_enabled(features, tokens, i, acc) ==
    IF i > Len(features) THEN acc
    ELSE push_enabled(features, tokens, i + 1,
                      IF mangled_feature(features[i]) \in tokens
                      THEN Append(acc, features[i])
                      ELSE acc)

\* Vec::remove(index)
remove(v, index) == SubSeq(v, 1, index - 1) \o SubSeq(v, index + 1, Len(v))

\* iter().position(|x| x == name), for a vector that holds the name
position(v, name) == CHOOSE i \in 1..Len(v) : v[i] = name /\ \A j \in 1..(i - 1) : v[j] # name

\* lines 65-73 with the option of line 71 built but not handed to the command
metadata_command_unfiltered(e) ==
    IF "CARGO_MANIFEST_DIR" \notin DOMAIN e THEN [panic |-> 69]
    ELSE IF "TARGET" \notin DOMAIN e THEN [panic |-> 71]
    ELSE [panic |-> 0,
          cmd |-> [manifest_path |-> <<e["CARGO_MANIFEST_DIR"], "Cargo.toml">>,
                   other_options |-> <<>>,
                   no_default_features |-> FALSE,
                   features |-> None]]

\* lines 65-73: Some(command), or the line of the unwrap that panics
metadata_command(e) ==
    IF "CARGO_MANIFEST_DIR" \notin DOMAIN e THEN [panic |-> 69]
    ELSE IF "TARGET" \notin DOMAIN e THEN [panic |-> 71]
    ELSE [panic |-> 0,
          cmd |-> [manifest_path |-> <<e["CARGO_MANIFEST_DIR"], "Cargo.toml">>,
                   other_options |-> << <<"--filter-platform=", e["TARGET"]>> >>,
                   no_default_features |-> FALSE,
                   features |-> None]]

\* lines 56-61 without the remove of line 57
select_features_keeping_default(cmd, features) ==
    IF \E i \in 1..Len(features) : features[i] = default
    THEN [cmd EXCEPT !.features = Some(features)]
    ELSE [cmd EXCEPT !.no_default_features = TRUE, !.features = Some(features)]

\* lines 56-61: what get_metadata does to the command with the list enabled_features returned
select_features(cmd, features) ==
    IF \E i \in 1..Len(features) : features[i] = default
    THEN [cmd EXCEPT !.features = Some(remove(features, position(features, default)))]
    ELSE [cmd EXCEPT !.no_default_features = TRUE, !.features = Some(features)]

\* lines 43-50 with 9 for "release"
choose_compression_level_max(e) ==
    IF "PROFILE" \notin DOMAIN e THEN [panic |-> 44, level |-> 0]
    ELSE IF e["PROFILE"] = "debug" THEN [panic |-> 0, level |-> DebugLevel]
    ELSE IF e["PROFILE"] = "release" THEN [panic |-> 0, level |-> MaxLevel]
    ELSE [panic |-> 48, level |-> 0]

\* lines 43-50: the level, or the line of the panic
choose_compression_level(e) ==
    IF "PROFILE" \notin DOMAIN e THEN [panic |-> 44, level |-> 0]
    ELSE IF e["PROFILE"] = "debug" THEN [panic |-> 0, level |-> DebugLevel]
    ELSE IF e["PROFILE"] = "release" THEN [panic |-> 0, level |-> ReleaseLevel]
    ELSE [panic |-> 48, level |-> 0]

\* lines 24-28 with the current directory for a missing OUT_DIR
output_file_path_or_current_dir(e) ==
    IF "OUT_DIR" \notin DOMAIN e THEN [panic |-> 0, path |-> <<".", ArtifactName>>]
    ELSE [panic |-> 0, path |-> <<e["OUT_DIR"], ArtifactName>>]

\* lines 24-28: the path, or the line of the panic
output_file_path(e) ==
    IF "OUT_DIR" \notin DOMAIN e THEN [panic |-> 25, path |-> <<"", "">>]
    ELSE [panic |-> 0, path |-> <<e["OUT_DIR"], ArtifactName>>]

\* line 86 with the root package taken as known when resolve or root is missing
root_package_id_lenient(md) == [panic |-> 0, id |-> RootId]

\* line 86: dry_run_metadata.resolve.unwrap().root.unwrap()
root_package_id(md) ==
    IF ~md.has_resolve \/ ~md.has_root THEN [panic |-> 86, id |-> ""]
    ELSE [panic |-> 0, id |-> RootId]

\* File::create: the file exists afterwards and is empty (created or truncated)
file_create(files, path) ==
    [p \in DOMAIN files \cup {path} |-> IF p = path THEN <<>> ELSE files[p]]

\* a write of `bytes` through the open file: appended at the file's position (its end)
file_write(files, path, bytes) == [files EXCEPT ![path] = @ \o bytes]

\* ---------------------------------------------------------------- inputs
Bytes == {0, 1}

\* the byte strings compress_to_vec_zlib may return
DataPool == UNION { [1..n -> Bytes] : n \in 0..MaxData }

ManifestDir == "/proj"
Target == "x86_64-unknown-linux-gnu"
OutDir == "/out"

ArtifactPath == <<OutDir, ArtifactName>>

Required == [CARGO_MANIFEST_DIR : {ManifestDir}, TARGET : {Target},
             PROFILE : {"debug", "release", "bench"}, OUT_DIR : {OutDir}]

Restrict(f, S) == [x \in S |-> f[x]]

RequiredNames == {"CARGO_MANIFEST_DIR", "TARGET", "PROFILE", "OUT_DIR"}

\* every environment: each required variable set or not, PROFILE with any of three values
Environments == { Restrict(r, S) : r \in Required, S \in SUBSET RequiredNames }

GoodEnvironment == [CARGO_MANIFEST_DIR |-> ManifestDir, TARGET |-> Target,
                    PROFILE |-> "release", OUT_DIR |-> OutDir]

\* names of environment variables besides the required ones
VarPool == { CARGO_FEATURE_ \o <<"D","E","F","A","U","L","T">>,
             CARGO_FEATURE_ \o <<"A","_","B">>,
             CARGO_FEATURE_ \o <<"X">>,
             CARGO_FEATURE_ \o CARGO_FEATURE_ \o <<"X">>,
             CARGO_FEATURE_,
             <<"C","A","R","G","O","_","F","E","A","T","U","R","E">>,
             <<"P","A","T","H">> }

\* feature names a manifest may declare
FeaturePool == { default,
                 <<"D","e","f","a","u","l","t">>,
                 <<"a","-","b">>,
                 <<"a","_","b">>,
                 <<"x">>,
                 <<"c","a","r","g","o","-","f","e","a","t","u","r","e","-","x">> }

VarSets(pool) == { S \in SUBSET pool : Cardinality(S) <= MaxVars }

\* the keys of a map, in any iteration order: sequences without repetition
Manifests(pool) ==
    UNION { { m \in [1..n -> pool] : \A i, j \in 1..n : i # j => m[i] # m[j] } :
            n \in 0..MaxFeatures }

NoFiles == [p \in {} |-> <<>>]

\* the output directory before the first run: empty, or holding an earlier build's artifact
FileSystems == {NoFiles} \cup { (ArtifactPath :> d) : d \in DataPool }

\* what the dry run of cargo metadata may answer for a manifest
DryRunAnswers(m) ==
    LET root == [id |-> RootId, features |-> m]
    IN  { [ok |-> FALSE, has_resolve |-> FALSE, has_root |-> FALSE, packages |-> <<>>],
          [ok |-> TRUE, has_resolve |-> FALSE, has_root |-> FALSE, packages |-> <<root>>],
          [ok |-> TRUE, has_resolve |-> TRUE, has_root |-> FALSE, packages |-> <<root>>],
          [ok |-> TRUE, has_resolve |-> TRUE, has_root |-> TRUE, packages |-> <<>>],
          [ok |-> TRUE, has_resolve |-> TRUE, has_root |-> TRUE, packages |-> <<root>>] }

\* ---------------------------------------------------------------- state machine
Fresh ==
    /\ pc = "start"
    /\ panic_line = 0
    /\ metadata_cmd = None
    /\ enabled_uppercase = {}
    /\ dry_run_metadata = None
    /\ result = <<>>
    /\ calls = <<>>
    /\ level = None
    /\ compressed_json = None
    /\ output_path = None
    /\ buf = <<>>
    /\ io_error = FALSE
    /\ published = None

InitWith(envs, varsets, manifests, filesystems) ==
    /\ env \in envs
    /\ featureVars \in varsets
    /\ manifest \in manifests
    /\ fs \in filesystems
    /\ Fresh

\* every environment and earlier artifact, a few features
Init ==
    InitWith(Environments,
             VarSets({CARGO_FEATURE_ \o <<"D","E","F","A","U","L","T">>,
                      CARGO_FEATURE_ \o <<"A","_","B">>}),
             Manifests({default, <<"a","-","b">>}),
             FileSystems)

\* a complete environment, every set of variables and every manifest
InitFeatures ==
    InitWith({GoodEnvironment}, VarSets(VarPool), Manifests(FeaturePool), {NoFiles})

\* a panic (a failed unwrap, or panic! itself) ends the run
Panic(line) ==
    /\ pc' = "panicked"
    /\ panic_line' = line

\* line 53: let mut metadata_command = metadata_command();
BuildCommand ==
    /\ pc = "start"
    /\ LET c == metadata_command(env)
       IN  IF c.panic # 0
           THEN /\ Panic(c.panic)
                /\ UNCHANGED metadata_cmd
           ELSE /\ pc' = "dry_run"
                /\ metadata_cmd' = Some(c.cmd)
                /\ UNCHANGED panic_line
    /\ UNCHANGED <<env, featureVars, manifest, fs, enabled_uppercase, dry_run_metadata, result,
                   calls, level, compressed_json, output_path, buf, io_error, published>>

\* lines 82-83: the tokens, then metadata_command().exec().unwrap()
DryRun ==
    /\ pc = "dry_run"
    /\ enabled_uppercase' = enabled_uppercase_features(featureVars)
    /\ calls' = Append(calls, metadata_command(env).cmd)
    /\ \E answer \in DryRunAnswers(manifest) :
         IF ~answer.ok
         THEN /\ Panic(83)
              /\ UNCHANGED dry_run_metadata
         ELSE /\ pc' = "reconstruct"
              /\ dry_run_metadata' = Some(answer)
              /\ UNCHANGED panic_line
    /\ UNCHANGED <<env, featureVars, manifest, fs, metadata_cmd, result,
                   level, compressed_json, output_path, buf, io_error, published>>

\* lines 86-94: the root package's features whose mangled name is a token
Reconstruct ==
    /\ pc = "reconstruct"
    /\ LET md == dry_run_metadata[1]
           root == root_package_id(md)
       IN  IF root.panic # 0
           THEN /\ Panic(root.panic)
                /\ UNCHANGED result
           ELSE IF ~\E i \in 1..Len(md.packages) : md.packages[i].id = root.id
           THEN /\ Panic(87)
                /\ UNCHANGED result
           ELSE LET root_package ==
                        md.packages[CHOOSE i \in 1..Len(md.packages) :
                                        /\ md.packages[i].id = root.id
                                        /\ \A j \in 1..(i - 1) : md.packages[j].id # root.id]
                IN  /\ result' = push_enabled(root_package.features, enabled_uppercase, 1, <<>>)
                    /\ pc' = "select"
                    /\ UNCHANGED panic_line
    /\ UNCHANGED <<env, featureVars, manifest, fs, metadata_cmd, enabled_uppercase,
                   dry_run_metadata, calls, level, compressed_json, output_path, buf,
                   io_error, published>>

\* lines 54-61: "default" becomes the absence of NoDefaultFeatures
SelectFeatures ==
    /\ pc = "select"
    /\ metadata_cmd' = Some(select_features(metadata_cmd[1], result))
    /\ pc' = "exec"
    /\ UNCHANGED <<env, featureVars, manifest, fs, panic_line, enabled_uppercase,
                   dry_run_metadata, result, calls, level, compressed_json, output_path, buf,
                   io_error, published>>

\* line 62: metadata_command.exec().unwrap()
Exec ==
    /\ pc = "exec"
    /\ calls' = Append(calls, metadata_cmd[1])
    /\ \E ok \in BOOLEAN :
         IF ok
         THEN pc' = "serialize" /\ UNCHANGED panic_line
         ELSE Panic(62)
    /\ UNCHANGED <<env, featureVars, manifest, fs, metadata_cmd, enabled_uppercase,
                   dry_run_metadata, result, level, compressed_json, output_path, buf,
                   io_error, published>>

\* lines 16-17: VersionInfo::try_from(..).unwrap(), serde_json::to_string(..).unwrap()
Serialize ==
    /\ pc = "serialize"
    /\ \E ok \in BOOLEAN :
         IF ok
         THEN pc' = "compress" /\ UNCHANGED panic_line
         ELSE Panic(16)
    /\ UNCHANGED <<env, featureVars, manifest, fs, metadata_cmd, enabled_uppercase,
                   dry_run_metadata, result, calls, level, compressed_json, output_path, buf,
                   io_error, published>>

\* line 18: compress_to_vec_zlib(json.as_bytes(), choose_compression_level())
Compress ==
    /\ pc = "compress"
    /\ LET l == choose_compression_level(env)
       IN  IF l.panic # 0
           THEN /\ Panic(l.panic)
                /\ UNCHANGED <<level, compressed_json>>
           ELSE /\ level' = Some(l.level)
                /\ \E data \in DataPool : compressed_json' = Some(data)
                /\ pc' = "output_file_path"
                /\ UNCHANGED panic_line
    /\ UNCHANGED <<env, featureVars, manifest, fs, metadata_cmd, enabled_uppercase,
                   dry_run_metadata, result, calls, output_path, buf, io_error, published>>

\* line 19: let output_file_path = output_file_path();
OutputFilePath ==
    /\ pc = "output_file_path"
    /\ LET o == output_file_path(env)
       IN  IF o.panic # 0
           THEN /\ Panic(o.panic)
                /\ UNCHANGED output_path
           ELSE /\ output_path' = Some(o.path)
                /\ pc' = "create"
                /\ UNCHANGED panic_line
    /\ UNCHANGED <<env, featureVars, manifest, fs, metadata_cmd, enabled_uppercase,
                   dry_run_metadata, result, calls, level, compressed_json, buf, io_error,
                   published>>

\* line 31: File::create(path).unwrap()
FileCreate ==
    /\ pc = "create"
    /\ \E ok \in BOOLEAN :
         IF ok
         THEN /\ fs' = file_create(fs, output_path[1])
              /\ pc' = "write_all"
              /\ UNCHANGED <<panic_line, io_error>>
         ELSE /\ io_error' = TRUE
              /\ Panic(31)
              /\ UNCHANGED fs
    /\ UNCHANGED <<env, featureVars, manifest, metadata_cmd, enabled_uppercase,
                   dry_run_metadata, result, calls, level, compressed_json, output_path, buf,
                   published>>

\* lines 32-33: BufWriter::new(f), writer.write_all(data).unwrap().  Data that fills the
\* buffer goes to the file at once, and `written` bytes of it arrive before an error;
\* shorter data stays in the buffer.
WriteAll ==
    /\ pc = "write_all"
    /\ LET data == compressed_json[1]
       IN  IF Len(data) >= BufCapacity
           THEN \E written \in 0..Len(data) :
                  /\ fs' = file_write(fs, output_path[1], SubSeq(data, 1, written))
                  /\ IF written = Len(data)
                     THEN pc' = "drop" /\ UNCHANGED <<panic_line, io_error>>
                     ELSE io_error' = TRUE /\ Panic(33)
                  /\ UNCHANGED buf
           ELSE /\ buf' = data
                /\ pc' = "drop"
                /\ UNCHANGED <<fs, panic_line, io_error>>
    /\ UNCHANGED <<env, featureVars, manifest, metadata_cmd, enabled_uppercase,
                   dry_run_metadata, result, calls, level, compressed_json, output_path,
                   published>>

\* line 34: the writer goes out of scope.  BufWriter's drop writes the buffer to the file
\* and ignores the error if the write fails after `written` bytes.
DropWriter ==
    /\ pc = "drop"
    /\ \E written \in 0..Len(buf) :
         /\ fs' = file_write(fs, output_path[1], SubSeq(buf, 1, written))
         /\ buf' = SubSeq(buf, written + 1, Len(buf))
         /\ io_error' = (io_error \/ written < Len(buf))
    /\ pc' = "export"
    /\ UNCHANGED <<env, featureVars, manifest, panic_line, metadata_cmd, enabled_uppercase,
                   dry_run_metadata, result, calls, level, compressed_json, output_path,
                   published>>

\* lines 21, 36-41: println!("cargo:rustc-env=RUST_AUDIT_DEPENDENCY_FILE_LOCATION={}", path)
ExportDependencyFilePath ==
    /\ pc = "export"
    /\ published' = output_path
    /\ pc' = "done"
    /\ UNCHANGED <<env, featureVars, manifest, fs, panic_line, metadata_cmd,
                   enabled_uppercase, dry_run_metadata, result, calls, level,
                   compressed_json, output_path, buf, io_error>>

\* the build script is run again: a new process, the same environment, manifest and files
Rerun ==
    /\ pc \in {"done", "panicked"}
    /\ pc' = "start"
    /\ panic_line' = 0
    /\ metadata_cmd' = None
    /\ enabled_uppercase' = {}
    /\ dry_run_metadata' = None
    /\ result' = <<>>
    /\ calls' = <<>>
    /\ level' = None
    /\ compressed_json' = None
    /\ output_path' = None
    /\ buf' = <<>>
    /\ io_error' = FALSE
    /\ published' = None
    /\ UNCHANGED <<env, featureVars, manifest, fs>>

\* get_metadata (lines 52-63) alone
NextMetadata ==
    \/ BuildCommand
    \/ DryRun
    \/ Reconstruct
    \/ SelectFeatures
    \/ Exec

Next ==
    \/ BuildCommand
    \/ DryRun
    \/ Reconstruct
    \/ SelectFeatures
    \/ Exec
    \/ Serialize
    \/ Compress
    \/ OutputFilePath
    \/ FileCreate
    \/ WriteAll
    \/ DropWriter
    \/ ExportDependencyFilePath
    \/ Rerun

Spec == Init /\ [][Next]_vars

SpecFeatures == InitFeatures /\ [][NextMetadata]_vars

\* ---------------------------------------------------------------- claims
\* uppercase, hyphen to underscore, character by character
Mangle(c) ==
    [i \in 1..Len(c) |->
        IF c[i] = "-" THEN "_"
        ELSE IF \E k \in 1..26 : Lower[k] = c[i]
             THEN Upper[CHOOSE k \in 1..26 : Lower[k] = c[i]]
             ELSE c[i]]

DEFAULT == <<"D","E","F","A","U","L","T">>

\* enabled_features has returned
Reconstructed ==
    \/ pc \in {"select", "exec", "serialize", "compress", "output_file_path", "create",
               "write_all", "drop", "export", "done"}
    \/ pc = "panicked" /\ panic_line \in {62, 16, 44, 48, 25, 31, 33}

\* C1: the list enabled_features returns holds only declared features, each once, and a
\* declared feature is in it iff its mangled name (uppercase, hyphen to underscore) is one
\* of the tokens; so two declared features with one mangled name are both in it.
C1_Reconstruction ==
    Reconstructed =>
        /\ Range(result) \subseteq Range(manifest)
        /\ \A c \in Range(manifest) : c \in Range(result) <=> Mangle(c) \in enabled_uppercase
        /\ \A i, j \in 1..Len(result) : i # j => result[i] # result[j]

C1_Witness ==
    /\ pc = "select"
    /\ \E i, j \in 1..Len(result) :
         /\ result[i] # result[j]
         /\ Mangle(result[i]) = Mangle(result[j])
         /\ Mangle(result[i]) \in enabled_uppercase

\* C2 as stated: the final call carries NoDefaultFeatures iff DEFAULT is not a token,
\* whatever the manifest declares, and its feature list never holds "default".
C2_Original ==
    Len(calls) = 2 =>
        /\ calls[2].no_default_features <=> DEFAULT \notin enabled_uppercase
        /\ default \notin Range(calls[2].features[1])

\* C2 amended: the final call carries NoDefaultFeatures iff it is not the case that the
\* manifest declares "default" and DEFAULT is a token; its feature list never holds "default".
C2_Amended ==
    Len(calls) = 2 =>
        /\ calls[2].no_default_features <=>
               ~(default \in Range(manifest) /\ DEFAULT \in enabled_uppercase)
        /\ calls[2].features # None
        /\ default \notin Range(calls[2].features[1])

C2_Witness ==
    /\ Len(calls) = 2
    /\ default \notin Range(manifest)
    /\ DEFAULT \in enabled_uppercase
    /\ calls[2].no_default_features

\* C3: a run makes at most two resolver calls and a finished run exactly two: first the
\* dry run without feature selection, then, once the dry run has returned, the call with
\* the reconstructed features (and NoDefaultFeatures when "default" is not among them);
\* both with CARGO_MANIFEST_DIR/Cargo.toml and --filter-platform=TARGET.
C3_TwoCalls ==
    /\ Len(calls) <= 2
    /\ pc \in {"serialize", "compress", "output_file_path", "create", "write_all", "drop",
               "export", "done"} => Len(calls) = 2
    /\ Len(calls) >= 1 =>
         /\ calls[1].manifest_path = <<env["CARGO_MANIFEST_DIR"], "Cargo.toml">>
         /\ calls[1].other_options = << <<"--filter-platform=", env["TARGET"]>> >>
         /\ calls[1].features = None
         /\ ~calls[1].no_default_features
    /\ Len(calls) = 2 =>
         /\ dry_run_metadata # None
         /\ calls[2].manifest_path = calls[1].manifest_path
         /\ calls[2].other_options = calls[1].other_options
         /\ calls[2].features # None
         /\ Range(calls[2].features[1]) = Range(result) \ {default}
         /\ calls[2].no_default_features <=> default \notin Range(result)

C3_Witness ==
    /\ pc = "done"
    /\ Len(calls) = 2
    /\ calls[2].no_default_features
    /\ calls[2].features[1] # <<>>

\* the dry run has answered without resolve, listing the root package
NoResolveAnswer ==
    /\ dry_run_metadata # None
    /\ ~dry_run_metadata[1].has_resolve
    /\ \E i \in 1..Len(dry_run_metadata[1].packages) :
         dry_run_metadata[1].packages[i].id = RootId

\* C4 as stated: when the dry run answers without resolve but lists the root package's
\* features, the run does not abort before the final resolver call.
C4_Original == NoResolveAnswer => ~(pc = "panicked" /\ Len(calls) < 2)

\* C4 amended: when the dry run answers without resolve, the run aborts at the unwrap of
\* line 86 and the final resolver call is never made.
C4_Amended ==
    NoResolveAnswer =>
        /\ pc = "reconstruct" \/ (pc = "panicked" /\ panic_line = 86)
        /\ Len(calls) = 1
        /\ result = <<>>

C4_Witness == NoResolveAnswer /\ pc = "panicked" /\ panic_line = 86

\* C5: when the path is published, the file at that path exists and holds exactly the
\* compressed bytes of this run.
C5_FileCompleteWhenPublished ==
    published # None =>
        /\ published[1] \in DOMAIN fs
        /\ fs[published[1]] = compressed_json[1]

\* C6: an error of File::create or of any write to the artifact file, the write of the
\* buffer on drop included, aborts the run, and the path is never published.
C6_IoErrorsFatal == io_error => (pc = "panicked" /\ published = None)

\* C7: the level is 1 for PROFILE "debug" and 7 (less than 9) for "release"; for any
\* other PROFILE the run panics on line 48, no level is chosen and nothing is compressed.
C7_Levels ==
    /\ level # None =>
         /\ "PROFILE" \in DOMAIN env
         /\ \/ env["PROFILE"] = "debug" /\ level[1] = 1
            \/ env["PROFILE"] = "release" /\ level[1] = 7 /\ level[1] < 9
    /\ compressed_json # None => level # None
    /\ pc \in {"output_file_path", "create", "write_all", "drop", "export", "done"} =>
         compressed_json # None
    /\ ("PROFILE" \in DOMAIN env /\ env["PROFILE"] \notin {"debug", "release"}) =>
         /\ level = None
         /\ compressed_json = None
         /\ pc = "panicked" => panic_line \in {69, 71, 83, 86, 87, 62, 16, 48}

C7_Witness ==
    /\ "PROFILE" \in DOMAIN env
    /\ env["PROFILE"] = "bench"
    /\ pc = "panicked"
    /\ panic_line = 48
    /\ level = None

\* a required variable is missing, or PROFILE is neither "debug" nor "release"
BadEnvironment ==
    \/ ~(RequiredNames \subseteq DOMAIN env)
    \/ env["PROFILE"] \notin {"debug", "release"}

\* C8: with a required variable missing or an unknown PROFILE, no step of the run creates
\* or changes a file, the path is never published and the run never finishes.
C8_BadEnvironmentFrame ==
    /\ [](BadEnvironment => (published = None /\ pc # "done"))
    /\ [][BadEnvironment => fs' = fs]_vars

C8_Witness ==
    /\ BadEnvironment
    /\ pc = "panicked"
    /\ panic_line = 25
    /\ compressed_json # None
    /\ ArtifactPath \in DOMAIN fs

\* C9: after a finished run the output directory holds exactly one file,
\* OUT_DIR/dependency-list.json.zlib, and it holds exactly the compressed bytes of that run.
C9_OneArtifact ==
    pc = "done" =>
        /\ DOMAIN fs = {<<env["OUT_DIR"], ArtifactName>>}
        /\ fs[<<env["OUT_DIR"], ArtifactName>>] = compressed_json[1]

\* C10: the tokens are exactly the names longer than CARGO_FEATURE_ that start with it,
\* with that prefix removed once.
C10_PrefixRemovedOnce ==
    Len(calls) >= 1 =>
        enabled_uppercase =
            { SubSeq(n, 15, Len(n)) :
                n \in { v \in featureVars : Len(v) > 14 /\ SubSeq(v, 1, 14) = CARGO_FEATURE_ } }

====
